---------------------------- MODULE Spec2Model ----------------------------
(***************************************************************************)
(* Model of src/libstd/io/util.rs: the Reader/Writer adapters LimitReader, *)
(* MultiWriter, ChainedReader, TeeReader and the driver function copy.     *)
(*                                                                         *)
(* Each adapter is explored under a specification of its own (SpecLimit,   *)
(* SpecMulti, SpecChain, SpecTee, SpecCopy); the variables of the adapters *)
(* a specification does not exercise stay at their idle values.            *)
(*                                                                         *)
(* The inner Readers, Writers and the Iterator are external to util.rs:    *)
(* they are modelled by their contract (ReadOutcomes, WriteOutcomes,       *)
(* IterNext) as nondeterministic environments.                             *)
(***************************************************************************)
EXTENDS Integers, Sequences, FiniteSets, TLC

(***************************************************************************)
(* Bounds of the exploration.                                              *)
(***************************************************************************)
\* longest content of one inner Reader
MaxLen == 3
\* largest buffer a caller hands to read
MaxBuf == 2
\* largest limit a LimitReader is constructed with
MaxLimit == 3
\* most inner Writers of a MultiWriter
MaxWriters == 2
\* most calls made on a MultiWriter
MaxCalls == 2
\* most items of the iterator a ChainedReader is constructed over
MaxProducers == 3
\* longest content of one producer of a ChainedReader
MaxChainLen == 2
\* most zero-byte reads the Reader copy reads from answers
MaxStalls == 1
\* super::DEFAULT_BUF_SIZE, the size of the buffer of copy, scaled down
DEFAULT_BUF_SIZE == 2

(***************************************************************************)
(* The state: the fields of each adapter, followed by what a test harness  *)
(* around it observes (the results returned, the bytes delivered).         *)
(***************************************************************************)
\* LimitReader
VARIABLES
    limit,        \* LimitReader.limit
    inner,        \* LimitReader.inner
    lr_limit0,    \* the limit LimitReader::new was given
    lr_data0,     \* the content of the inner Reader at construction
    lr_phase,     \* "wrapped", or "unwrapped" once unwrap() was called
    lr_ret,       \* the result of the last read
    lr_out,       \* the bytes all successful reads have returned, in order
    lr_last,      \* what the last read did (see NoCall)
    lr_after      \* bytes read from the inner Reader after unwrap()

limitVars == <<limit, inner, lr_limit0, lr_data0, lr_phase, lr_ret, lr_out,
               lr_last, lr_after>>

\* MultiWriter
VARIABLES
    writers,      \* MultiWriter.writers: for each inner Writer, the calls it
                  \* has received, in order
    mw_calls,     \* the calls made on the MultiWriter, in order
    mw_rets,      \* the result of each of those calls
    mw_last       \* the last call: the inner outcomes and the order in which
                  \* the inner Writers were invoked

multiVars == <<writers, mw_calls, mw_rets, mw_last>>

\* ChainedReader
VARIABLES
    readers,      \* ChainedReader.readers: what the iterator has still to
                  \* yield
    cur_reader,   \* ChainedReader.cur_reader: Option<R>
    cr_prods,     \* the iterator ChainedReader::new was given
    cr_ret,       \* the result of the last read
    cr_out,       \* the bytes all successful reads have returned, in order
    cr_last,      \* the last read: the inner reads it made and the number of
                  \* times it called readers.next()
    cr_faulted,   \* whether an inner read has failed other than by EndOfFile
    cr_dropped    \* the number of Readers cur_reader has held and let go

chainVars == <<readers, cur_reader, cr_prods, cr_ret, cr_out, cr_last,
               cr_faulted, cr_dropped>>

\* TeeReader
VARIABLES
    reader,       \* TeeReader.reader
    writer,       \* TeeReader.writer: the bytes it has accepted, in order
    tr_data0,     \* the content of the inner Reader at construction
    tr_ret,       \* the result of the last read
    tr_buf,       \* the caller's buffer after the last read
    tr_out,       \* the bytes all successful reads have returned, in order
    tr_last,      \* the last read: the inner calls it made and their results
    tr_wfailed    \* whether a write of the inner Writer has failed

teeVars == <<reader, writer, tr_data0, tr_ret, tr_buf, tr_out, tr_last,
             tr_wfailed>>

\* copy
VARIABLES
    copy_pc,      \* where copy is: "read" (line 190), "write" (line 195),
                  \* "done" (returned)
    copy_r,       \* the Reader r
    copy_w,       \* the Writer w: the bytes it has accepted, in order
    copy_buf,     \* the local buf
    copy_len,     \* the local len
    copy_ret,     \* the value copy returned
    copy_data0,   \* the content of r when copy was called
    copy_fault,   \* the first failure, other than EndOfFile, of an inner
                  \* call (Ok while there is none)
    copy_stalls   \* the zero-byte reads r may still answer

copyVars == <<copy_pc, copy_r, copy_w, copy_buf, copy_len, copy_ret,
              copy_data0, copy_fault, copy_stalls>>

\* a LimitReader over a LimitReader, beside a single LimitReader over a
\* Reader of the same content
VARIABLES
    nested,       \* LimitReader { limit, inner: LimitReader { limit, inner } }
    flat,         \* LimitReader { limit, inner }
    nf_ret,       \* the results of the last read of nested and of flat
    nf_out,       \* the bytes the reads of nested and of flat have returned
    nf_last       \* the last read: the three limits before it

nestVars == <<nested, flat, nf_ret, nf_out, nf_last>>

vars == <<limitVars, multiVars, chainVars, teeVars, copyVars, nestVars>>

\* what the operations of one adapter leave alone
notLimit == <<multiVars, chainVars, teeVars, copyVars, nestVars>>

notMulti == <<limitVars, chainVars, teeVars, copyVars, nestVars>>

notChain == <<limitVars, multiVars, teeVars, copyVars, nestVars>>

notTee == <<limitVars, multiVars, chainVars, copyVars, nestVars>>

notCopy == <<limitVars, multiVars, chainVars, teeVars, nestVars>>

notNested == <<limitVars, multiVars, chainVars, teeVars, copyVars>>

(***************************************************************************)
(* io::IoResult<uint> and io::IoResult<()>                                 *)
(***************************************************************************)
Ok(n) == [ok |-> TRUE, len |-> n, err |-> "none"]

Err(e) == [ok |-> FALSE, len |-> 0, err |-> e]

EndOfFile == "EndOfFile"

\* the kinds of failure, other than EndOfFile, an inner Reader may report
ReadErrs == {"TimedOut", "OtherIoError"}

\* the kinds of failure an inner Writer may report
WriteErrs == {"BrokenPipe", "ShortWrite"}

Min(a, b) == IF a <= b THEN a ELSE b

\* cmp::min as LimitReader::read uses it
CmpMin(a, b) == IF a < b THEN a ELSE b

IsPrefix(s, t) == Len(s) <= Len(t) /\ SubSeq(t, 1, Len(s)) = s

\* the bytes from, from+1, ... : n distinct consecutive byte values
Stream(from, n) == [i \in 1..n |-> (from + i - 1) % 256]

(***************************************************************************)
(* The Reader contract (trait Reader, implemented outside util.rs).        *)
(* A Reader holds the bytes it has still to deliver.  read(buf) with a     *)
(* buffer of n bytes may                                                   *)
(*   - succeed with k bytes, 0 <= k <= n, k never more than it holds; a    *)
(*     zero-byte success on a non-empty buffer only when zeroOK,           *)
(*   - fail with EndOfFile, once nothing is left,                          *)
(*   - fail with any other error, consuming nothing.                       *)
(***************************************************************************)
ReadOutcomes(rd, n, zeroOK) ==
    LET avail == Min(n, Len(rd.data))
        lo    == IF zeroOK \/ n = 0 THEN 0 ELSE 1
    IN  { [res   |-> Ok(k),
           bytes |-> SubSeq(rd.data, 1, k),
           next  |-> [rd EXCEPT !.data = SubSeq(rd.data, k + 1, Len(rd.data))]]
          : k \in lo..avail }
        \cup
        (IF rd.data = <<>>
         THEN {[res |-> Err(EndOfFile), bytes |-> <<>>, next |-> rd]}
         ELSE {})
        \cup
        { [res |-> Err(e), bytes |-> <<>>, next |-> rd] : e \in ReadErrs }

\* a Reader holding the bytes d
MemReader(d) == [data |-> d]

(***************************************************************************)
(* The Writer contract: write(buf) and flush() succeed or fail.            *)
(***************************************************************************)
WriteOutcomes == {Ok(0)} \cup {Err(e) : e \in WriteErrs}

(***************************************************************************)
(* LimitReader                                                             *)
(***************************************************************************)

NoCall == [called |-> FALSE, buflen |-> 0, before |-> 0,
           invoked |-> FALSE, slice |-> 0, innerRes |-> Ok(0)]

\* LimitReader::new(r, limit)
LimitNew(r, l) ==
    /\ limit = l
    /\ inner = r
    /\ lr_limit0 = l
    /\ lr_data0 = r.data
    /\ lr_phase = "wrapped"
    /\ lr_ret = Ok(0)
    /\ lr_out = <<>>
    /\ lr_last = NoCall
    /\ lr_after = <<>>

\* the mutant of LimitSliceLen: the whole buffer is handed on
LimitSliceLenWhole(l, buflen) == buflen

\* the slice length LimitReader::read hands to the inner Reader
LimitSliceLen(l, buflen) == CmpMin(l, buflen)

\* self.limit -= len.  limit is a uint: a result below 0 here is the
\* unsigned underflow of the code.
LimitAfter(l, n) == l - n

\* the mutant of LimitExhausted: the test of the limit is lost
LimitExhaustedNever(l) == FALSE

\* if self.limit == 0
LimitExhausted(l) == l = 0

\* the mutant of LimitMapErr: every failure is reported as EndOfFile
LimitMapErrAsEof(res) == Err(EndOfFile)

\* Result::map on an Err: the closure is not run, the Err is the result
LimitMapErr(res) == res

\* LimitReader::read(buf), buf of buflen bytes
LimitRead(buflen) ==
    /\ lr_phase = "wrapped"
    /\ IF LimitExhausted(limit)
       THEN /\ lr_ret' = Err(EndOfFile)
            /\ lr_last' = [called |-> TRUE, buflen |-> buflen, before |-> limit,
                           invoked |-> FALSE, slice |-> 0, innerRes |-> Ok(0)]
            /\ UNCHANGED <<limit, inner, lr_out>>
       ELSE \E o \in ReadOutcomes(inner, LimitSliceLen(limit, buflen), TRUE) :
            /\ inner' = o.next
            /\ lr_last' = [called |-> TRUE, buflen |-> buflen, before |-> limit,
                           invoked |-> TRUE,
                           slice |-> LimitSliceLen(limit, buflen),
                           innerRes |-> o.res]
            /\ IF o.res.ok
               THEN /\ limit' = LimitAfter(limit, o.res.len)
                    /\ lr_ret' = Ok(o.res.len)
                    /\ lr_out' = lr_out \o o.bytes
               ELSE /\ lr_ret' = LimitMapErr(o.res)
                    /\ UNCHANGED <<limit, lr_out>>
    /\ UNCHANGED <<lr_limit0, lr_data0, lr_phase, lr_after>>
    /\ UNCHANGED notLimit

\* LimitReader::unwrap(): the inner Reader is handed back
LimitUnwrap ==
    /\ lr_phase = "wrapped"
    /\ lr_phase' = "unwrapped"
    /\ UNCHANGED <<limit, inner, lr_limit0, lr_data0, lr_ret, lr_out, lr_last,
                   lr_after>>
    /\ UNCHANGED notLimit

\* the caller reads the inner Reader directly, after unwrap()
LimitInnerRead(buflen) ==
    /\ lr_phase = "unwrapped"
    /\ \E o \in ReadOutcomes(inner, buflen, TRUE) :
        /\ inner' = o.next
        /\ lr_after' = lr_after \o o.bytes
    /\ UNCHANGED <<limit, lr_limit0, lr_data0, lr_phase, lr_ret, lr_out, lr_last>>
    /\ UNCHANGED notLimit

LimitIdle == LimitNew(MemReader(<<>>), 0)

LimitInit ==
    \E l \in 0..MaxLimit, n \in 0..MaxLen : LimitNew(MemReader(Stream(0, n)), l)

LimitNext ==
    \/ \E buflen \in 0..MaxBuf : LimitRead(buflen)
    \/ LimitUnwrap
    \/ \E buflen \in 0..MaxBuf : LimitInnerRead(buflen)


(***************************************************************************)
(* MultiWriter                                                             *)
(***************************************************************************)

\* a call as a Writer sees it
WriteCall(b) == [op |-> "write", buf |-> b]

FlushCall == [op |-> "flush", buf |-> <<>>]

\* the buffers a caller writes
WriteBufs == {Stream(1, n) : n \in 1..MaxBuf}

\* MultiWriter::new(writers), over n Writers that have received nothing
MultiNew(n) ==
    /\ writers = [i \in 1..n |-> <<>>]
    /\ mw_calls = <<>>
    /\ mw_rets = <<>>
    /\ mw_last = [outs |-> <<>>, trace |-> <<>>]

\* the mutant of ResultAnd: the later error replaces the earlier one
ResultAndLast(a, b) == IF b.ok THEN a ELSE b

\* Result::and: the first error, else the second result
ResultAnd(a, b) == IF a.ok THEN b ELSE a

\* the mutant of MultiStep: a Writer is invoked only while no error has
\* occurred (ret.and_then, try!)
MultiStepShortCircuit(st, i, call, out) ==
    IF st.ret.ok
    THEN [ret     |-> out,
          writers |-> [st.writers EXCEPT ![i] = Append(@, call)],
          trace   |-> Append(st.trace, i)]
    ELSE st

\* one iteration of the loops of MultiWriter::write and MultiWriter::flush:
\* ret = ret.and(writer.write(buf)), the inner call made unconditionally,
\* with outcome out
MultiStep(st, i, call, out) ==
    [ret     |-> ResultAnd(st.ret, out),
     writers |-> [st.writers EXCEPT ![i] = Append(@, call)],
     trace   |-> Append(st.trace, i)]

RECURSIVE MultiLoop(_, _, _, _)
\* for writer in self.writers.mut_iter() { ... }, from the i-th Writer on
MultiLoop(st, i, call, outs) ==
    IF i > Len(st.writers)
    THEN st
    ELSE MultiLoop(MultiStep(st, i, call, outs[i]), i + 1, call, outs)

\* the mutant of MultiInner: flush, copied from write, still writes
MultiInnerAlwaysWrite(call) == WriteCall(call.buf)

\* the call each inner Writer receives: writer.write(buf) in write,
\* writer.flush() in flush
MultiInner(call) ==
    IF call.op = "write" THEN WriteCall(call.buf) ELSE FlushCall

\* the body shared by write and flush: let mut ret = Ok(()); the loop;
\* return ret
MultiCall(call) ==
    \E outs \in [1..Len(writers) -> WriteOutcomes] :
        LET st == MultiLoop([ret |-> Ok(0), writers |-> writers, trace |-> <<>>],
                            1, MultiInner(call), outs)
        IN  /\ writers' = st.writers
            /\ mw_calls' = Append(mw_calls, call)
            /\ mw_rets' = Append(mw_rets, st.ret)
            /\ mw_last' = [outs |-> outs, trace |-> st.trace]

\* MultiWriter::write(buf)
MultiWrite(b) ==
    /\ Len(mw_calls) < MaxCalls
    /\ MultiCall(WriteCall(b))
    /\ UNCHANGED notMulti

\* MultiWriter::flush()
MultiFlush ==
    /\ Len(mw_calls) < MaxCalls
    /\ MultiCall(FlushCall)
    /\ UNCHANGED notMulti

MultiIdle == MultiNew(0)

MultiInit == \E n \in 0..MaxWriters : MultiNew(n)

MultiNext ==
    \/ \E b \in WriteBufs : MultiWrite(b)
    \/ MultiFlush

(***************************************************************************)
(* ChainedReader                                                           *)
(***************************************************************************)

\* Option<R>
None == [some |-> FALSE, id |-> 0, data |-> <<>>]

Some(rd) == [some |-> TRUE, id |-> rd.id, data |-> rd.data]

\* what an iterator yields: its id-th item, a Reader holding d
Producer(id, d) == [gap |-> FALSE, id |-> id, data |-> d]

\* a call of next() that answers None although items follow (an iterator
\* need not be fused)
Gap(id) == [gap |-> TRUE, id |-> id, data |-> <<>>]

\* Iterator::next: the item yielded and the iterator left
IterNext(it) ==
    IF it = <<>> THEN [item |-> None, rest |-> <<>>]
    ELSE IF Head(it).gap THEN [item |-> None, rest |-> Tail(it)]
    ELSE [item |-> Some(Head(it)), rest |-> Tail(it)]

\* the mutant of ChainNew: the producer after the first is asked for ahead
\* of its use
ChainNewEager(it) ==
    /\ readers = IterNext(IterNext(it).rest).rest
    /\ cur_reader = IterNext(it).item
    /\ cr_prods = it
    /\ cr_ret = Ok(0)
    /\ cr_out = <<>>
    /\ cr_last = [called |-> FALSE, trace |-> <<>>, pulls |-> 0]
    /\ cr_faulted = FALSE
    /\ cr_dropped = 0

\* ChainedReader::new(readers)
ChainNew(it) ==
    /\ readers = IterNext(it).rest
    /\ cur_reader = IterNext(it).item
    /\ cr_prods = it
    /\ cr_ret = Ok(0)
    /\ cr_out = <<>>
    /\ cr_last = [called |-> FALSE, trace |-> <<>>, pulls |-> 0]
    /\ cr_faulted = FALSE
    /\ cr_dropped = 0

\* the mutant of ChainAdvance: a producer is skipped
ChainAdvanceSkip(st) ==
    LET nx == IterNext(IterNext(st.readers).rest)
    IN  [st EXCEPT !.readers = nx.rest, !.cur = nx.item, !.pulls = @ + 2,
                   !.dropped = IF st.cur.some THEN @ + 1 ELSE @]

\* self.cur_reader = self.readers.next()
ChainAdvance(st) ==
    LET nx == IterNext(st.readers)
    IN  [st EXCEPT !.readers = nx.rest, !.cur = nx.item, !.pulls = @ + 1,
                   !.dropped = IF st.cur.some THEN @ + 1 ELSE @]

\* the mutant of ChainBreak: the iterator is asked again
ChainBreakRepoll(st) == {[ChainAdvance(st) EXCEPT !.ret = Err(EndOfFile)]}

\* None => break, and after the loop Err(io::standard_error(io::EndOfFile))
ChainBreak(st) == {[st EXCEPT !.ret = Err(EndOfFile)]}

\* the mutant of ChainLoop: after an EndOfFile the read advances and returns
\* EndOfFile, without a retry
ChainLoopOnce(st, n) ==
    IF ~st.cur.some
    THEN {[st EXCEPT !.ret = Err(EndOfFile)]}
    ELSE { LET seen == [st EXCEPT !.trace = Append(@, [id |-> st.cur.id,
                                                       res |-> o.res])]
           IN  IF o.res.ok
               THEN [seen EXCEPT !.cur = o.next, !.ret = o.res,
                                 !.bytes = o.bytes]
               ELSE IF o.res.err = EndOfFile
               THEN [ChainAdvance(seen) EXCEPT !.ret = o.res]
               ELSE [ChainAdvance(seen) EXCEPT !.ret = o.res,
                                               !.faulted = TRUE]
           : o \in ReadOutcomes(st.cur, n, TRUE) }

RECURSIVE ChainLoop(_, _)
\* the mutant of ChainLoop: a Reader that answered EndOfFile is read a second
\* time before the ChainedReader advances
ChainLoopReread(st, n) ==
    IF ~st.cur.some
    THEN ChainBreak(st)
    ELSE UNION {
           LET seen == [st EXCEPT !.trace = Append(@, [id |-> st.cur.id,
                                                       res |-> o.res])]
               again == [seen EXCEPT !.trace = Append(@, [id |-> st.cur.id,
                                                          res |-> o.res])]
           IN  IF o.res.ok
               THEN {[seen EXCEPT !.cur = o.next, !.ret = o.res,
                                  !.bytes = o.bytes]}
               ELSE IF o.res.err = EndOfFile
               THEN ChainLoop(ChainAdvance(again), n)
               ELSE {[ChainAdvance(seen) EXCEPT !.ret = o.res,
                                                !.faulted = TRUE]}
           : o \in ReadOutcomes(st.cur, n, TRUE) }

\* the loop of ChainedReader::read over a buffer of n bytes: the set of the
\* ways it can end, one for each choice of the inner Readers' outcomes
ChainLoop(st, n) ==
    IF ~st.cur.some
    THEN ChainBreak(st)
    ELSE UNION {
           LET seen == [st EXCEPT !.trace = Append(@, [id |-> st.cur.id,
                                                       res |-> o.res])]
           IN  IF o.res.ok
               THEN \* Ok(len) => return Ok(len)
                    {[seen EXCEPT !.cur = o.next, !.ret = o.res,
                                  !.bytes = o.bytes]}
               ELSE IF o.res.err = EndOfFile
               THEN \* err is None: advance and loop
                    ChainLoop(ChainAdvance(seen), n)
               ELSE \* err is Some(e): advance, then return Err(e)
                    {[ChainAdvance(seen) EXCEPT !.ret = o.res,
                                                !.faulted = TRUE]}
           : o \in ReadOutcomes(st.cur, n, TRUE) }

\* ChainedReader::read(buf), buf of buflen bytes
ChainRead(buflen) ==
    \E st \in ChainLoop([readers |-> readers, cur |-> cur_reader,
                         ret |-> Ok(0), bytes |-> <<>>, trace |-> <<>>,
                         pulls |-> 0, faulted |-> cr_faulted,
                         dropped |-> cr_dropped], buflen) :
        /\ readers' = st.readers
        /\ cur_reader' = st.cur
        /\ cr_ret' = st.ret
        /\ cr_out' = cr_out \o st.bytes
        /\ cr_last' = [called |-> TRUE, trace |-> st.trace, pulls |-> st.pulls]
        /\ cr_faulted' = st.faulted
        /\ cr_dropped' = st.dropped
        /\ UNCHANGED cr_prods
        /\ UNCHANGED notChain

\* the iterators of at most n items whose producers hold consecutive bytes
\* starting at from, each at most MaxChainLen of them
RECURSIVE Iterators(_, _, _)
Iterators(n, id, from) ==
    IF n = 0 THEN {<<>>}
    ELSE {<<>>}
         \cup { <<Gap(id)>> \o rest : rest \in Iterators(n - 1, id + 1, from) }
         \cup UNION { { <<Producer(id, Stream(from, k))>> \o rest
                        : rest \in Iterators(n - 1, id + 1, from + k) }
                      : k \in 0..MaxChainLen }

ChainIdle == ChainNew(<<>>)

ChainInit == \E it \in Iterators(MaxProducers, 1, 0) : ChainNew(it)

ChainNext == \E buflen \in 0..MaxBuf : ChainRead(buflen)

(***************************************************************************)
(* TeeReader                                                               *)
(***************************************************************************)
\* what a buffer holds where no read has written: no byte value
Stale == 0 - 1

\* a Writer that keeps the bytes it accepts (io::MemWriter), holding d
MemWriter(d) == [recv |-> d]

\* TeeReader::new(r, w)
TeeNew(r, w) ==
    /\ reader = r
    /\ writer = w
    /\ tr_data0 = r.data
    /\ tr_ret = Ok(0)
    /\ tr_buf = <<>>
    /\ tr_out = <<>>
    /\ tr_last = [called |-> FALSE, before |-> 0, readRes |-> Ok(0),
                  wrote |-> <<>>, writeRes |-> Ok(0)]
    /\ tr_wfailed = FALSE

\* the mutant of TeeSlice: the whole buffer is written
TeeSliceWhole(buf, len) == buf

\* buf.slice_to(len)
TeeSlice(buf, len) == SubSeq(buf, 1, len)

\* the mutant of TeeResult: the result of the write is dropped
TeeResultIgnoreWrite(len, wres) == Ok(len)

\* self.writer.write(...).map(|()| len)
TeeResult(len, wres) == IF wres.ok THEN Ok(len) ELSE wres

\* the mutant of TeeAndThenErr: a failed read is reported as EndOfFile
TeeAndThenErrAsEof(res) == Err(EndOfFile)

\* Result::and_then on an Err: the closure is not run, the Err is the result
TeeAndThenErr(res) == res

\* the body of TeeReader::read(buf), buf of buflen bytes; zeroOK: whether
\* the inner Reader may report a read of no bytes into a buffer that has room
TeeReadBody(buflen, zeroOK) ==
    /\ \E o \in ReadOutcomes(reader, buflen, zeroOK) :
        LET buf == o.bytes \o [i \in 1..(buflen - Len(o.bytes)) |-> Stale]
        IN  /\ reader' = o.next
            /\ tr_buf' = buf
            /\ IF o.res.ok
               THEN \* and_then(|len| self.writer.write(buf.slice_to(len)) ...)
                    \E wres \in WriteOutcomes :
                        /\ writer' = IF wres.ok
                                     THEN MemWriter(writer.recv
                                                    \o TeeSlice(buf, o.res.len))
                                     ELSE writer
                        /\ tr_ret' = TeeResult(o.res.len, wres)
                        /\ tr_out' = IF tr_ret'.ok
                                     THEN tr_out \o SubSeq(buf, 1, tr_ret'.len)
                                     ELSE tr_out
                        /\ tr_last' = [called |-> TRUE,
                                       before |-> Len(reader.data),
                                       readRes |-> o.res,
                                       wrote |-> <<TeeSlice(buf, o.res.len)>>,
                                       writeRes |-> wres]
                        /\ tr_wfailed' = (tr_wfailed \/ ~wres.ok)
               ELSE /\ tr_ret' = TeeAndThenErr(o.res)
                    /\ tr_last' = [called |-> TRUE,
                                   before |-> Len(reader.data),
                                   readRes |-> o.res,
                                   wrote |-> <<>>,
                                   writeRes |-> Ok(0)]
                    /\ UNCHANGED <<writer, tr_out, tr_wfailed>>
    /\ UNCHANGED tr_data0

\* TeeReader::read(buf), buf of buflen bytes
TeeRead(buflen) ==
    /\ TeeReadBody(buflen, TRUE)
    /\ UNCHANGED notTee

TeeIdle == TeeNew(MemReader(<<>>), MemWriter(<<>>))

TeeInit == \E n \in 0..MaxLen : TeeNew(MemReader(Stream(0, n)), MemWriter(<<>>))

TeeNext == \E buflen \in 0..MaxBuf : TeeRead(buflen)

(***************************************************************************)
(* copy                                                                    *)
(***************************************************************************)
\* let mut buf = [0, ..super::DEFAULT_BUF_SIZE]
CopyNewBuf == [i \in 1..DEFAULT_BUF_SIZE |-> 0]

\* copy(r, w) is called
CopyCall(r, w, stalls) ==
    /\ copy_pc = "read"
    /\ copy_r = r
    /\ copy_w = w
    /\ copy_buf = CopyNewBuf
    /\ copy_len = 0
    /\ copy_ret = Ok(0)
    /\ copy_data0 = r.data
    /\ copy_fault = Ok(0)
    /\ copy_stalls = stalls

\* the first failure of an inner call
CopyFault(res) == IF copy_fault.ok THEN res ELSE copy_fault

\* the mutant of CopyReadReturns: EndOfFile is taken for a read of no bytes
CopyReadReturnsOnErrorOnly(res) == ~res.ok /\ res.err # EndOfFile

\* the arms of the match on r.read(buf) that return: the two Err arms
CopyReadReturns(res) == ~res.ok

\* match r.read(buf) { ... }, r.read(buf) having returned res and put bytes
\* at the start of buf
CopyMatch(res, bytes) ==
    /\ copy_buf' = bytes \o SubSeq(copy_buf, Len(bytes) + 1, DEFAULT_BUF_SIZE)
    /\ IF ~CopyReadReturns(res)
       THEN \* Ok(len) => len
            /\ copy_len' = res.len
            /\ copy_pc' = "write"
            /\ copy_stalls' = IF res.ok /\ res.len = 0
                               THEN copy_stalls - 1
                               ELSE copy_stalls
            /\ UNCHANGED <<copy_ret, copy_fault>>
       ELSE IF res.err = EndOfFile
       THEN \* Err(ref e) if e.kind == io::EndOfFile => return Ok(())
            /\ copy_ret' = Ok(0)
            /\ copy_pc' = "done"
            /\ UNCHANGED <<copy_len, copy_fault, copy_stalls>>
       ELSE \* Err(e) => return Err(e)
            /\ copy_ret' = res
            /\ copy_pc' = "done"
            /\ copy_fault' = CopyFault(res)
            /\ UNCHANGED <<copy_len, copy_stalls>>

\* let len = match r.read(buf) { ... }
CopyRead ==
    /\ copy_pc = "read"
    /\ \E o \in ReadOutcomes(copy_r, DEFAULT_BUF_SIZE, copy_stalls > 0) :
        /\ copy_r' = o.next
        /\ CopyMatch(o.res, o.bytes)
    /\ UNCHANGED <<copy_w, copy_data0>>
    /\ UNCHANGED notCopy

\* the mutant of CopySlice: the whole buffer is written
CopySliceWhole(buf, len) == buf

\* buf.slice_to(len)
CopySlice(buf, len) == SubSeq(buf, 1, len)

\* the mutant of CopyTryFails: the result of the write is dropped
CopyTryFailsNever(wres) == FALSE

\* try!(...): whether the result makes copy return
CopyTryFails(wres) == ~wres.ok

\* try!(w.write(buf.slice_to(len)))
CopyWrite ==
    /\ copy_pc = "write"
    /\ \E wres \in WriteOutcomes :
        /\ copy_w' = IF wres.ok
                     THEN MemWriter(copy_w.recv \o CopySlice(copy_buf, copy_len))
                     ELSE copy_w
        /\ copy_fault' = IF wres.ok THEN copy_fault ELSE CopyFault(wres)
        /\ IF CopyTryFails(wres)
           THEN /\ copy_ret' = wres
                /\ copy_pc' = "done"
           ELSE /\ copy_pc' = "read"
                /\ UNCHANGED copy_ret
    /\ UNCHANGED <<copy_r, copy_buf, copy_len, copy_data0, copy_stalls>>
    /\ UNCHANGED notCopy

CopyIdle ==
    /\ CopyCall(MemReader(<<>>), MemWriter(<<>>), 0)

CopyInit ==
    \E n \in 0..MaxLen, st \in 0..MaxStalls :
        CopyCall(MemReader(Stream(1, n)), MemWriter(<<>>), st)

CopyNext == CopyRead \/ CopyWrite

(***************************************************************************)
(* copy from a TeeReader                                                   *)
(***************************************************************************)
\* copy(&mut TeeReader::new(r, w1), &mut w2) is called
TeeCopyCall(r, w1, w2, stalls) ==
    /\ TeeNew(r, w1)
    /\ CopyCall(MemReader(<<>>), w2, stalls)

\* let len = match r.read(buf) { ... }, r being the TeeReader
TeeCopyRead ==
    /\ copy_pc = "read"
    /\ TeeReadBody(DEFAULT_BUF_SIZE, copy_stalls > 0)
    /\ CopyMatch(tr_ret', IF tr_last'.readRes.ok
                          THEN SubSeq(tr_buf', 1, tr_last'.readRes.len)
                          ELSE <<>>)
    /\ UNCHANGED <<copy_r, copy_w, copy_data0>>
    /\ UNCHANGED <<limitVars, multiVars, chainVars, nestVars>>

TeeCopyInit ==
    \E n \in 0..MaxLen, st \in 0..MaxStalls :
        TeeCopyCall(MemReader(Stream(1, n)), MemWriter(<<>>), MemWriter(<<>>),
                    st)

TeeCopyNext == TeeCopyRead \/ CopyWrite

(***************************************************************************)
(* LimitReader over LimitReader                                            *)
(***************************************************************************)
\* a Reader holding d that shows the last call it received: the length of
\* the buffer it was given and its answer
Probe(d) == [data |-> d, asked |-> <<>>, answer |-> Ok(0)]

\* the Probe before a read of the adapter over it
ProbeReset(rd) == [rd EXCEPT !.asked = <<>>, !.answer = Ok(0)]

\* Reader::read of a Probe
ProbeRead(rd, n) ==
    { [o EXCEPT !.next = [data |-> o.next.data, asked |-> <<n>>,
                          answer |-> o.res]]
      : o \in ReadOutcomes(rd, n, TRUE) }

RECURSIVE ReaderRead(_, _)
\* LimitReader::read(buf) of the LimitReader lr = [limit, inner] over any
\* Reader: the ways it can end, each with the result, the bytes put in buf
\* and the LimitReader left
LimitReadOutcomes(lr, buflen) ==
    IF LimitExhausted(lr.limit)
    THEN {[res |-> Err(EndOfFile), bytes |-> <<>>, next |-> lr]}
    ELSE { [res   |-> IF o.res.ok THEN Ok(o.res.len) ELSE LimitMapErr(o.res),
            bytes |-> o.bytes,
            next  |-> [limit |-> IF o.res.ok
                                 THEN LimitAfter(lr.limit, o.res.len)
                                 ELSE lr.limit,
                       inner |-> o.next]]
           : o \in ReaderRead(lr.inner, LimitSliceLen(lr.limit, buflen)) }

\* Reader::read(buf) of rd, a LimitReader or the Reader under it, buf of n
\* bytes
ReaderRead(rd, n) ==
    IF "limit" \in DOMAIN rd THEN LimitReadOutcomes(rd, n) ELSE ProbeRead(rd, n)

\* LimitReader::new(LimitReader::new(s, a), b) and
\* LimitReader::new(s, min(a, b)), s holding d
NestedNew(d, a, b) ==
    /\ nested = [limit |-> b, inner |-> [limit |-> a, inner |-> Probe(d)]]
    /\ flat = [limit |-> CmpMin(a, b), inner |-> Probe(d)]
    /\ nf_ret = [nested |-> Ok(0), flat |-> Ok(0)]
    /\ nf_out = [nested |-> <<>>, flat |-> <<>>]
    /\ nf_last = [called |-> FALSE, buflen |-> 0, outer |-> b, inner |-> a,
                  flat |-> CmpMin(a, b)]

\* one read(buf), buf of buflen bytes, of each of the two; where the two
\* Readers s hold the same bytes and are given buffers of the same length,
\* they answer alike
NestedRead(buflen) ==
    /\ \E o1 \in LimitReadOutcomes(
                    [nested EXCEPT !.inner.inner = ProbeReset(@)], buflen),
          o2 \in LimitReadOutcomes(
                    [flat EXCEPT !.inner = ProbeReset(@)], buflen) :
        /\ (/\ nested.inner.inner.data = flat.inner.data
            /\ o1.next.inner.inner.asked = o2.next.inner.asked)
              => o1.next.inner.inner.answer = o2.next.inner.answer
        /\ nested' = o1.next
        /\ flat' = o2.next
        /\ nf_ret' = [nested |-> o1.res, flat |-> o2.res]
        /\ nf_out' = [nested |-> nf_out.nested \o o1.bytes,
                      flat |-> nf_out.flat \o o2.bytes]
        /\ nf_last' = [called |-> TRUE, buflen |-> buflen,
                       outer |-> nested.limit, inner |-> nested.inner.limit,
                       flat |-> flat.limit]
    /\ UNCHANGED notNested

NestedIdle == NestedNew(<<>>, 0, 0)

NestedInit ==
    \E a \in 0..MaxLimit, b \in 0..MaxLimit, n \in 0..MaxLen :
        NestedNew(Stream(0, n), a, b)

NestedNext == \E buflen \in 0..MaxBuf : NestedRead(buflen)

(***************************************************************************)
(* The specifications: one for each adapter                                *)
(***************************************************************************)
InitLimit == LimitInit /\ MultiIdle /\ ChainIdle /\ TeeIdle /\ CopyIdle
    /\ NestedIdle

SpecLimit == InitLimit /\ [][LimitNext]_vars

InitMulti == MultiInit /\ LimitIdle /\ ChainIdle /\ TeeIdle /\ CopyIdle
    /\ NestedIdle

SpecMulti == InitMulti /\ [][MultiNext]_vars

InitChain == ChainInit /\ LimitIdle /\ MultiIdle /\ TeeIdle /\ CopyIdle
    /\ NestedIdle

SpecChain == InitChain /\ [][ChainNext]_vars

InitTee == TeeInit /\ LimitIdle /\ MultiIdle /\ ChainIdle /\ CopyIdle
    /\ NestedIdle

SpecTee == InitTee /\ [][TeeNext]_vars

InitCopy == CopyInit /\ LimitIdle /\ MultiIdle /\ ChainIdle /\ TeeIdle
    /\ NestedIdle

SpecCopy == InitCopy /\ [][CopyNext]_vars

InitTeeCopy ==
    /\ TeeCopyInit /\ LimitIdle /\ MultiIdle /\ ChainIdle /\ NestedIdle

SpecTeeCopy == InitTeeCopy /\ [][TeeCopyNext]_vars

InitNested ==
    /\ NestedInit /\ LimitIdle /\ MultiIdle /\ ChainIdle /\ TeeIdle /\ CopyIdle

SpecNested == InitNested /\ [][NestedNext]_vars

\* copy is sequential code whose inner calls return (they block until they
\* complete or fail): while copy has a step to take, it takes it
SpecCopyFair == SpecCopy /\ WF_vars(CopyNext)

(***************************************************************************)
(* Properties of LimitReader                                               *)
(***************************************************************************)
\* the bytes the LimitReader itself has taken from the inner Reader
LimitConsumed == Len(lr_data0) - Len(inner.data) - Len(lr_after)

\* C4: every successful read returns n <= min(limit before, buf.len()) and
\* leaves limit = limit before - n; the limit never grows and never goes
\* below 0; the bytes returned are the first bytes of the inner stream, in
\* order, and over an inner Reader holding at least the initial limit a
\* read fails with EndOfFile only after exactly that many bytes.
LimitQuotaAccounting ==
    /\ limit \in 0..lr_limit0
    /\ limit + Len(lr_out) = lr_limit0
    /\ IsPrefix(lr_out, lr_data0)
    /\ lr_last.called => limit <= lr_last.before
    /\ (lr_last.called /\ lr_ret.ok) =>
          /\ lr_ret.len <= Min(lr_last.before, lr_last.buflen)
          /\ limit = lr_last.before - lr_ret.len
    /\ (Len(lr_data0) >= lr_limit0 /\ lr_last.called /\ lr_ret = Err(EndOfFile)) =>
          /\ lr_out = SubSeq(lr_data0, 1, lr_limit0)
          /\ limit = 0
    /\ (Len(lr_data0) >= lr_limit0 /\ lr_last.called /\ limit = 0) =>
          lr_out = SubSeq(lr_data0, 1, lr_limit0)

\* C4 witness: an inner Reader longer than the limit was read, in more than
\* one read, up to the limit, and the next read failed with EndOfFile
LimitQuotaWitness ==
    /\ Len(lr_data0) > lr_limit0
    /\ lr_limit0 >= 2
    /\ lr_last.called
    /\ lr_last.before = 0
    /\ lr_ret = Err(EndOfFile)
    /\ Len(lr_out) = lr_limit0

\* C5: with limit 0 a read fails with EndOfFile without invoking the inner
\* Reader; the LimitReader never takes more than the initial limit from the
\* inner Reader, whose bytes past those returned stay readable from it.
LimitNeverOverReads ==
    /\ (lr_last.called /\ lr_last.before = 0) =>
          (lr_ret = Err(EndOfFile) /\ ~lr_last.invoked)
    /\ LimitConsumed <= lr_limit0
    /\ LimitConsumed = Len(lr_out)
    /\ lr_out \o lr_after \o inner.data = lr_data0

\* C5 witness: the limit was used up, a further read was refused, and after
\* unwrap() the rest of the inner Reader was read from it
LimitOverReadWitness ==
    /\ lr_phase = "unwrapped"
    /\ lr_limit0 > 0
    /\ limit = 0
    /\ lr_last.before = 0
    /\ lr_after # <<>>
    /\ inner.data = <<>>
    /\ lr_out \o lr_after = lr_data0

(***************************************************************************)
(* Properties of MultiWriter                                               *)
(***************************************************************************)
\* the inner Writers whose call failed, in the last call
MultiFailed == {i \in 1..Len(mw_last.outs) : ~mw_last.outs[i].ok}

\* the lowest of a non-empty set of indices
Lowest(S) == CHOOSE i \in S : \A j \in S : i <= j

\* the last call invoked every inner Writer exactly once, in construction
\* order, with the call's own arguments
MultiAllInvoked ==
    /\ mw_last.trace = [i \in 1..Len(writers) |-> i]
    /\ \A i \in 1..Len(writers) :
        /\ Len(writers[i]) = Len(mw_calls)
        /\ writers[i][Len(mw_calls)] = mw_calls[Len(mw_calls)]

\* the last call returned success iff every inner call succeeded, else the
\* error of the first inner Writer that failed
MultiFirstError ==
    LET ret == mw_rets[Len(mw_rets)]
    IN  /\ ret.ok <=> MultiFailed = {}
        /\ MultiFailed # {} => ret = mw_last.outs[Lowest(MultiFailed)]

\* C2: write(buf) invokes write(buf) exactly once on every inner Writer, in
\* construction order, whatever the earlier outcomes; it returns success iff
\* every inner write succeeded, else the error of the first that failed.
MultiWriteAllThenFirstError ==
    (mw_calls # <<>> /\ mw_calls[Len(mw_calls)].op = "write") =>
        (MultiAllInvoked /\ MultiFirstError)

\* C2 witness: a write over two Writers, the first failing, the second
\* failing with another error; both received the buffer
MultiWriteWitness ==
    /\ Len(writers) = 2
    /\ mw_calls # <<>>
    /\ mw_calls[Len(mw_calls)].op = "write"
    /\ ~mw_last.outs[1].ok
    /\ ~mw_last.outs[2].ok
    /\ mw_last.outs[1] # mw_last.outs[2]
    /\ mw_rets[Len(mw_rets)] = mw_last.outs[1]
    /\ writers[2][Len(writers[2])] = mw_calls[Len(mw_calls)]

\* C3: flush() invokes flush exactly once on every inner Writer, in
\* construction order, even after failures; its result is the first inner
\* flush error if any, else success, whatever earlier calls returned.
MultiFlushAllThenFirstError ==
    (mw_calls # <<>> /\ mw_calls[Len(mw_calls)].op = "flush") =>
        (MultiAllInvoked /\ MultiFirstError)

\* C3 witness: a write failed, and the flush after it, its first inner
\* flush succeeding and its second failing, returned the second's error
MultiFlushWitness ==
    /\ Len(writers) = 2
    /\ Len(mw_calls) >= 2
    /\ mw_calls[Len(mw_calls)].op = "flush"
    /\ mw_calls[Len(mw_calls) - 1].op = "write"
    /\ ~mw_rets[Len(mw_rets) - 1].ok
    /\ mw_last.outs[1].ok
    /\ ~mw_last.outs[2].ok
    /\ mw_rets[Len(mw_rets)] = mw_last.outs[2]
    /\ mw_rets[Len(mw_rets)] # mw_rets[Len(mw_rets) - 1]

(***************************************************************************)
(* Properties of ChainedReader                                             *)
(***************************************************************************)
RECURSIVE ChainFlatten(_)
\* the bytes of the producers an iterator yields before it first answers None
ChainFlatten(it) ==
    IF it = <<>> \/ Head(it).gap THEN <<>>
    ELSE Head(it).data \o ChainFlatten(Tail(it))

\* the bytes the ChainedReader has still to return
ChainRemaining ==
    IF cur_reader.some THEN cur_reader.data \o ChainFlatten(readers) ELSE <<>>

\* the inner reads of the last call that ended with EndOfFile
ChainEofReads ==
    {k \in 1..Len(cr_last.trace) : cr_last.trace[k].res = Err(EndOfFile)}

\* C1: when the current Reader's read fails with an error other than
\* EndOfFile, the error is returned and the ChainedReader does not advance:
\* cur_reader is still the Reader that failed and next() was called only
\* for the Readers that had reported EndOfFile; a Reader is abandoned only
\* after its own read has reported EndOfFile.
ChainErrorDoesNotAdvance ==
    /\ (cr_last.called /\ ~cr_ret.ok /\ cr_ret.err # EndOfFile) =>
          /\ cur_reader.some
          /\ cur_reader.id = cr_last.trace[Len(cr_last.trace)].id
          /\ cr_last.pulls = Cardinality(ChainEofReads)
    /\ \A k \in 1..Len(cr_last.trace) :
          (~cur_reader.some \/ cur_reader.id # cr_last.trace[k].id) =>
              cr_last.trace[k].res = Err(EndOfFile)

\* C6: while no inner read fails other than by EndOfFile, the bytes returned
\* followed by the bytes still to come are the concatenation of the
\* producers' bytes in sequence order, no read returns an error other than
\* EndOfFile, and a read fails with EndOfFile only once the whole
\* concatenation has been returned.
ChainConcatenation ==
    ~cr_faulted =>
        /\ cr_out \o ChainRemaining = ChainFlatten(cr_prods)
        /\ cr_ret.ok \/ cr_ret.err = EndOfFile
        /\ (cr_last.called /\ ~cr_ret.ok) =>
              (cr_out = ChainFlatten(cr_prods) /\ ~cur_reader.some)

\* C6 witness: three producers, the middle one empty, the others not, read
\* to the EndOfFile of the ChainedReader without any other error
ChainConcatenationWitness ==
    /\ ~cr_faulted
    /\ Len(cr_prods) = 3
    /\ \A i \in 1..3 : ~cr_prods[i].gap
    /\ cr_prods[1].data # <<>>
    /\ cr_prods[2].data = <<>>
    /\ Len(cr_prods[3].data) = 2
    /\ cr_last.called
    /\ cr_ret = Err(EndOfFile)
    /\ cr_out = cr_prods[1].data \o cr_prods[3].data

(***************************************************************************)
(* Properties of TeeReader                                                 *)
(***************************************************************************)
\* the bytes the inner Reader has delivered so far
TeeConsumed == Len(tr_data0) - Len(reader.data)

\* C7: every successful read returning n made exactly one write, of the
\* first n bytes of the caller's buffer; while no write has failed, the
\* bytes the Writer has accepted are the bytes returned to the caller, in
\* order, and at the EndOfFile of the inner Reader both are its content.
TeeMirrors ==
    /\ (tr_last.called /\ tr_ret.ok) =>
          /\ tr_last.readRes = tr_ret
          /\ tr_last.wrote = <<SubSeq(tr_buf, 1, tr_ret.len)>>
          /\ tr_last.writeRes.ok
    /\ ~tr_wfailed =>
          /\ writer.recv = tr_out
          /\ tr_out = SubSeq(tr_data0, 1, TeeConsumed)
          /\ (tr_last.called /\ tr_ret = Err(EndOfFile)) =>
                (tr_out = tr_data0 /\ writer.recv = tr_data0)

\* C7 witness: a Reader of MaxLen bytes, more than one buffer holds, was read
\* to its EndOfFile, no write failing
TeeMirrorsWitness ==
    /\ ~tr_wfailed
    /\ Len(tr_data0) = MaxLen
    /\ tr_last.called
    /\ tr_ret = Err(EndOfFile)
    /\ writer.recv = tr_data0
    /\ tr_out = tr_data0

\* C8: when the inner read succeeds with n bytes and the inner write fails
\* with e, read returns e, the caller's buffer holds the n bytes read, and
\* the inner Reader has advanced past them; the bytes a successful read
\* returns are always those the inner Reader delivered in that read.
TeeWriteFailure ==
    /\ (tr_last.called /\ tr_last.readRes.ok /\ ~tr_last.writeRes.ok) =>
          /\ tr_ret = tr_last.writeRes
          /\ ~tr_ret.ok
          /\ SubSeq(tr_buf, 1, tr_last.readRes.len)
               = SubSeq(tr_data0, TeeConsumed - tr_last.readRes.len + 1,
                        TeeConsumed)
          /\ Len(reader.data) = tr_last.before - tr_last.readRes.len
    /\ (tr_last.called /\ tr_ret.ok) =>
          /\ SubSeq(tr_buf, 1, tr_ret.len)
               = SubSeq(tr_data0, TeeConsumed - tr_ret.len + 1, TeeConsumed)
          /\ Len(reader.data) = tr_last.before - tr_ret.len
    /\ reader.data = SubSeq(tr_data0, TeeConsumed + 1, Len(tr_data0))

\* C8 witness: a read of two bytes whose write failed; the Writer and the
\* caller have seen none of them and the Reader holds only the bytes that
\* follow
TeeWriteFailureWitness ==
    /\ tr_last.called
    /\ tr_last.readRes = Ok(2)
    /\ ~tr_last.writeRes.ok
    /\ tr_ret = tr_last.writeRes
    /\ tr_buf = SubSeq(tr_data0, 1, 2)
    /\ tr_out = <<>>
    /\ writer.recv = <<>>
    /\ reader.data = SubSeq(tr_data0, 3, Len(tr_data0))
    /\ reader.data # <<>>

(***************************************************************************)
(* Properties of copy                                                      *)
(***************************************************************************)
\* the bytes copy has read from r
CopyConsumed == SubSeq(copy_data0, 1, Len(copy_data0) - Len(copy_r.data))

\* C9: when no read fails other than by EndOfFile and no write fails, copy
\* returns Ok(()) and the Writer has accepted exactly the bytes of the
\* Reader, in order; EndOfFile is never what copy returns.
CopyResult ==
    /\ copy_ret.ok \/ copy_ret.err # EndOfFile
    /\ (copy_pc = "done" /\ copy_fault.ok) =>
          /\ copy_ret = Ok(0)
          /\ copy_w.recv = copy_data0
          /\ copy_r.data = <<>>
    /\ (copy_pc = "done" /\ copy_ret.ok) => copy_fault.ok

\* C9 witness: a Reader holding more than the buffer, delivered in chunks
\* shorter than the buffer, was copied whole
CopyResultWitness ==
    /\ copy_pc = "done"
    /\ copy_ret = Ok(0)
    /\ Len(copy_data0) > DEFAULT_BUF_SIZE
    /\ copy_w.recv = copy_data0
    /\ copy_stalls = 0
    /\ copy_buf[DEFAULT_BUF_SIZE] = 0

\* C10: copy returns the first failure, other than EndOfFile, of a read or
\* a write, and has returned as soon as there is one; the bytes the Writer
\* has accepted are always a prefix of the bytes read, and when a write has
\* failed, the bytes read are those accepted followed by the chunk of that
\* write.
CopyErrorAbort ==
    /\ ~copy_fault.ok => (copy_pc = "done" /\ copy_ret = copy_fault)
    /\ copy_pc = "done" => (copy_ret.ok \/ copy_ret = copy_fault)
    /\ IsPrefix(copy_w.recv, CopyConsumed)
    /\ copy_pc = "read" => copy_w.recv = CopyConsumed
    /\ copy_pc = "write" =>
          CopyConsumed = copy_w.recv \o SubSeq(copy_buf, 1, copy_len)
    /\ (copy_pc = "done" /\ copy_fault.err \in WriteErrs) =>
          CopyConsumed = copy_w.recv \o SubSeq(copy_buf, 1, copy_len)
    /\ (copy_pc = "done" /\ copy_fault.err \notin WriteErrs) =>
          copy_w.recv = CopyConsumed

\* C10 witness: the second write failed: copy returned its error, the first
\* chunk is in the Writer, the second was read and is in neither
CopyErrorAbortWitness ==
    /\ copy_pc = "done"
    /\ copy_ret.err \in WriteErrs
    /\ copy_w.recv # <<>>
    /\ copy_len > 0
    /\ Len(CopyConsumed) = Len(copy_w.recv) + copy_len
    /\ copy_r.data # <<>>

\* copy returned by the EndOfFile of the Reader, or by the first failure
CopyEndedByEofOrError ==
    copy_pc = "done" =>
        \/ copy_ret = Ok(0) /\ copy_fault.ok /\ copy_r.data = <<>>
        \/ ~copy_fault.ok /\ copy_ret = copy_fault

\* a read of zero bytes is followed by one write, of no bytes, and then by
\* the next read
CopyZeroReadStep ==
    /\ (copy_pc = "read" /\ copy_pc' # "done") => copy_pc' = "write"
    /\ (copy_pc = "write" /\ copy_len = 0) =>
          /\ copy_pc' \in {"read", "done"}
          /\ copy_w' = copy_w
          /\ copy_r' = copy_r
    /\ (copy_pc = "write" /\ copy_pc' = "read") =>
          copy_w'.recv = copy_w.recv \o SubSeq(copy_buf, 1, copy_len)

\* C11: over a Reader that reports EndOfFile or an error after finitely many
\* reads, copy eventually returns; it returns only by the EndOfFile of the
\* Reader or by the first failure; a successful zero-byte read costs one
\* write of no bytes and then the next read.
CopyTerminates ==
    /\ <>(copy_pc = "done")
    /\ [](CopyEndedByEofOrError)
    /\ [][CopyZeroReadStep]_vars

\* C11 witness: copy has returned success over a non-empty Reader that
\* answered a zero-byte read on the way
CopyTerminatesWitness ==
    /\ copy_pc = "done"
    /\ copy_ret = Ok(0)
    /\ copy_data0 # <<>>
    /\ copy_w.recv = copy_data0
    /\ copy_stalls < MaxStalls

(***************************************************************************)
(* Further properties of LimitReader                                       *)
(***************************************************************************)
\* C12: with the limit above 0, a failure of the inner read, EndOfFile
\* included, is the failure of read, and the limit is left as it was; so
\* over an inner Reader holding fewer bytes than the limit, EndOfFile is
\* reported once all its bytes are returned, the limit still above 0.
LimitErrorPassThrough ==
    /\ (lr_last.called /\ lr_last.before > 0) => lr_last.invoked
    /\ (lr_last.called /\ lr_last.invoked /\ ~lr_last.innerRes.ok) =>
          /\ lr_ret = lr_last.innerRes
          /\ limit = lr_last.before
    /\ (lr_last.called /\ Len(lr_data0) < lr_limit0
          /\ lr_ret = Err(EndOfFile)) =>
          /\ lr_out = lr_data0
          /\ limit = lr_limit0 - Len(lr_data0)
          /\ limit > 0

\* C12 witness: an inner Reader shorter than the limit was read to its
\* EndOfFile, which the LimitReader reported with its limit above 0
LimitErrorWitness ==
    /\ lr_last.called
    /\ lr_data0 # <<>>
    /\ Len(lr_data0) < lr_limit0
    /\ lr_last.invoked
    /\ lr_last.innerRes = Err(EndOfFile)
    /\ lr_ret = Err(EndOfFile)
    /\ lr_out = lr_data0
    /\ limit > 0

(***************************************************************************)
(* Further properties of ChainedReader                                     *)
(***************************************************************************)
\* the items of cr_prods the iterator has been asked for and has yielded
ChainYielded == Len(cr_prods) - Len(readers)

\* the iterator has answered None to the last call of next()
ChainIterSaidNone ==
    \/ readers = <<>>
    \/ (ChainYielded > 0 /\ cr_prods[ChainYielded].gap)

\* the last inner read of the last call
ChainLastRead == cr_last.trace[Len(cr_last.trace)]

\* C13: an inner read that reports EndOfFile is followed, in the same call,
\* by a read of the next producer; the call returns the data or the error
\* other than EndOfFile of its last inner read, and returns EndOfFile only
\* when the iterator has answered None, never while a producer the iterator
\* would yield next is unread.
ChainEofOnlyAtEnd ==
    cr_last.called =>
        /\ \A k \in 1..(Len(cr_last.trace) - 1) :
              /\ cr_last.trace[k].res = Err(EndOfFile)
              /\ cr_last.trace[k + 1].id = cr_last.trace[k].id + 1
        /\ (cr_last.trace # <<>> /\ ChainLastRead.res # Err(EndOfFile)) =>
              cr_ret = ChainLastRead.res
        /\ cr_ret = Err(EndOfFile) =>
              /\ ~cur_reader.some
              /\ ChainIterSaidNone
              /\ (\A i \in 1..Len(cr_prods) : ~cr_prods[i].gap) => readers = <<>>

\* C13 witness: one read skipped two empty producers and returned the data
\* of the third
ChainEofOnlyAtEndWitness ==
    /\ cr_last.called
    /\ Len(cr_last.trace) = 3
    /\ cr_last.trace[1].res = Err(EndOfFile)
    /\ cr_last.trace[2].res = Err(EndOfFile)
    /\ cr_ret.ok
    /\ cr_ret.len > 0
    /\ cur_reader.some
    /\ cur_reader.id = 3

\* the producers the iterator has yielded
ChainPulled == Cardinality({i \in 1..ChainYielded : ~cr_prods[i].gap})

\* the inner reads of the last call that failed
ChainFailedReads ==
    {k \in 1..Len(cr_last.trace) : ~cr_last.trace[k].res.ok}

\* C14: construction asks the iterator for one item; a read whose inner
\* read succeeds asks for none, each failed inner read for one; the
\* producers yielded are the Readers let go plus the current one, which is
\* the item yielded last: no producer is yielded ahead of the one being
\* read.
ChainLazy ==
    /\ ~cr_last.called =>
          /\ ChainYielded = Min(1, Len(cr_prods))
          /\ cr_dropped = 0
    /\ cr_last.called => cr_last.pulls = Cardinality(ChainFailedReads)
    /\ (cr_last.called /\ cr_ret.ok) => cr_last.pulls = Len(cr_last.trace) - 1
    /\ ChainPulled <= cr_dropped + 1
    /\ cur_reader.some =>
          /\ ChainPulled = cr_dropped + 1
          /\ cur_reader.id = ChainYielded
    /\ ~cur_reader.some => ChainPulled = cr_dropped

\* C14 witness: after construction over three producers, a read of the
\* first returned data and the iterator still holds the other two
ChainLazyWitness ==
    /\ Len(cr_prods) = 3
    /\ cr_last.called
    /\ cr_ret.ok
    /\ cr_ret.len > 0
    /\ cr_last.pulls = 0
    /\ cur_reader.some
    /\ cur_reader.id = 1
    /\ Len(readers) = 2
    /\ ChainPulled = 1

(***************************************************************************)
(* Further properties of TeeReader                                         *)
(***************************************************************************)
\* what a read whose inner read fails does
TeeSourceFailureStep ==
    ~tr_last'.readRes.ok =>
        /\ tr_ret' = tr_last'.readRes
        /\ tr_last'.wrote = <<>>
        /\ writer' = writer
        /\ tr_out' = tr_out
        /\ reader' = reader

\* C15: whenever the inner read fails, with EndOfFile or another error,
\* read returns that failure and makes no call of the inner Writer, whose
\* state the call leaves as it was.
TeeSourceFailure == [][TeeSourceFailureStep]_vars

\* C15 witness: after bytes had been written to the Writer, an inner read
\* failed with an error other than EndOfFile, which read returned
TeeSourceFailureWitness ==
    /\ tr_last.called
    /\ tr_last.readRes.err \in ReadErrs
    /\ tr_ret = tr_last.readRes
    /\ tr_last.wrote = <<>>
    /\ writer.recv # <<>>
    /\ reader.data # <<>>

(***************************************************************************)
(* Further properties of MultiWriter                                       *)
(***************************************************************************)
\* the calls of one kind in a sequence of calls
CallsOf(log, op) == Cardinality({k \in 1..Len(log) : log[k].op = op})

\* C16: every inner Writer has received exactly the calls made on the
\* MultiWriter, in their order: a write for each write, with its buffer, a
\* flush for each flush, and nothing else.
MultiWriteFlushSeparate ==
    \A i \in 1..Len(writers) :
        /\ writers[i] = mw_calls
        /\ CallsOf(writers[i], "write") = CallsOf(mw_calls, "write")
        /\ CallsOf(writers[i], "flush") = CallsOf(mw_calls, "flush")

\* C16 witness: a write then a flush on a MultiWriter of two Writers: each
\* has seen one write and then one flush
MultiSeparateWitness ==
    /\ Len(writers) = 2
    /\ Len(mw_calls) = 2
    /\ mw_calls[1].op = "write"
    /\ mw_calls[2].op = "flush"
    /\ \A i \in 1..2 : CallsOf(writers[i], "write") = 1
    /\ \A i \in 1..2 : CallsOf(writers[i], "flush") = 1
    /\ writers[2][2] = FlushCall

\* what a read does once cur_reader is None
ChainExhaustedStep ==
    ~cur_reader.some =>
        /\ cr_ret' = Err(EndOfFile)
        /\ cr_last'.trace = <<>>
        /\ cr_last'.pulls = 0
        /\ readers' = readers
        /\ cur_reader' = cur_reader
        /\ cr_out' = cr_out

\* C17: once the iterator has answered None, at construction or in a read,
\* every read fails with EndOfFile without a call of next() and without a
\* read of any Reader, also when the iterator would yield a producer if
\* asked again.
ChainExhaustedAbsorbing == [][ChainExhaustedStep]_vars

\* C17 witness: a read has failed with EndOfFile, with no inner read and no
\* call of next(), while the iterator still holds a producer with bytes
ChainExhaustedWitness ==
    /\ ~cur_reader.some
    /\ cr_last.called
    /\ cr_last.trace = <<>>
    /\ cr_last.pulls = 0
    /\ cr_ret = Err(EndOfFile)
    /\ readers # <<>>
    /\ ~Head(readers).gap
    /\ Head(readers).data # <<>>
    /\ cr_out # <<>>

(***************************************************************************)
(* Properties of LimitReader over LimitReader                              *)
(***************************************************************************)
\* C18: read for read, a LimitReader of limit b over a LimitReader of limit
\* a returns the results and the bytes that a LimitReader of limit
\* min(a, b) returns, and makes the same calls of the innermost Reader,
\* which is left holding the same bytes; the two limits of the nested pair
\* and the limit of the single one go down by the same amount in each read.
NestedTransparent ==
    /\ nf_ret.nested = nf_ret.flat
    /\ nf_out.nested = nf_out.flat
    /\ nested.inner.inner = flat.inner
    /\ flat.limit = Min(nested.limit, nested.inner.limit)
    /\ nf_last.outer - nested.limit = nf_last.inner - nested.inner.limit
    /\ nf_last.outer - nested.limit = nf_last.flat - flat.limit
    /\ nf_ret.nested.ok => nf_last.outer - nested.limit = nf_ret.nested.len

\* C18 witness: with the inner limit the smaller, the pair and the single
\* LimitReader have returned that many bytes in more than one read, and the
\* next read of each failed with EndOfFile, the outer limit still above 0
NestedTransparentWitness ==
    /\ nf_last.called
    /\ nf_ret.nested = Err(EndOfFile)
    /\ nf_ret.flat = Err(EndOfFile)
    /\ nested.inner.limit = 0
    /\ nested.limit > 0
    /\ Len(nf_out.nested) >= 2
    /\ nf_out.flat = nf_out.nested
    /\ flat.inner.data # <<>>
    /\ flat.inner.asked = <<>>

(***************************************************************************)
(* Properties of copy from a TeeReader                                     *)
(***************************************************************************)
\* the chunk copy holds between its read and its write
TeeCopyPending ==
    IF copy_pc = "write" \/ (copy_pc = "done" /\ ~copy_ret.ok /\ ~tr_wfailed
                             /\ tr_last.called /\ tr_last.readRes.ok)
    THEN CopySlice(copy_buf, copy_len)
    ELSE <<>>

ChainProducersLeft == Cardinality({i \in DOMAIN readers : ~readers[i].gap})

\* a call of read made inner reads, each of another Reader, no more of them
\* than one and the producers the iterator held, and none without a
\* current Reader
ChainReadBoundStep ==
    cr_last'.called =>
        /\ Len(cr_last'.trace) <= ChainProducersLeft + 1
        /\ \A i \in DOMAIN cr_last'.trace, j \in DOMAIN cr_last'.trace :
              i # j => cr_last'.trace[i].id # cr_last'.trace[j].id
        /\ ~cur_reader.some => cr_last'.trace = <<>>

\* C20: over an iterator that holds finitely many producers, a call of
\* ChainedReader::read returns after at most one inner read more than the
\* producers the iterator holds when it is called, and reads no inner Reader
\* twice.
ChainReadBounded == [][ChainReadBoundStep]_vars

\* C20 witness: one call of read has read each of MaxProducers Readers once,
\* the current one and all the iterator held, and returned
ChainReadBoundedWitness ==
    /\ cr_last.called
    /\ Len(cr_last.trace) = MaxProducers
    /\ Len(cr_prods) = MaxProducers
    /\ \A k \in 1..MaxProducers : cr_last.trace[k].id = cr_prods[k].id
    /\ readers = <<>>

=============================================================================
